---------------------------- MODULE Spec2Model ----------------------------
(***************************************************************************)
(* Change-ingestion coordination of scriptor: the lease lock stored in the *)
(* WatchChannelLocks table (pkg/database/watchchannel_store.go), the       *)
(* paging loop over the Google Drive change feed (pkg/google/drive.go) and *)
(* the SQS handler that ties them to the document ledger and the workflow  *)
(* start (lambdas/sqs_handler, process).                                   *)
(*                                                                         *)
(* Time is the wall clock in milliseconds, advanced in steps of TickMillis.*)
(* A change-feed token is the position of the next entry of the feed; the  *)
(* empty string of the source is EmptyToken.                               *)
(***************************************************************************)
EXTENDS Integers, Sequences, FiniteSets, TLC

\* ----------------------------------------------------------------- bounds
NumProcs == 2        \* ingestion invocations (one queue message each)
MaxTicks == 2        \* clock ticks the model follows
ExpiryTicks == 4     \* clock ticks followed when no holder releases
MaxChanges == 2      \* entries the change feed can hold
PageSize == 1        \* entries the feed provider returns per page
MaxSignals == 2      \* messages the queue can hold
MaxHours == 50       \* hours of the registration schedule the model follows
MaxRetries == 1      \* times the state machine invokes a task again

\* ------------------------------------------------------ program constants
LeaseMillis == 30000
EmptyToken == 0
NoExpiry == -1
NoTime == -1

TickMillis == LeaseMillis
MaxNow == MaxTicks * TickMillis
MaxExpiryNow == ExpiryTicks * TickMillis

Procs == 1..NumProcs
Channels == {"ch1"}
WatchedFolder == "F1"
Tokens == 0..(MaxChanges + 1)
StartTokens == 1..(MaxChanges + 1)

\* Change entries of the feed: fileId, removed, parents.
Entries ==
    { [fileId |-> "g1", removed |-> FALSE, parents |-> <<"F1">>],
      [fileId |-> "g1", removed |-> TRUE,  parents |-> <<"F1">>],
      [fileId |-> "g2", removed |-> FALSE, parents |-> <<"F2">>] }

VARIABLES
    now,          \* wall clock, milliseconds
    lease,        \* WatchChannelLocks table: channel -> item
    feed,         \* the provider's change log, a sequence of Entries
    ledger,       \* Documents table: set of [id, google_id]
    executions,   \* workflow executions started: set of [notificationID, id, stage]
    pc,           \* position of each invocation of process
    startToken,   \* process: startToken returned by AcquireChangesToken
    pageToken,    \* QueryChanges: pageToken
    seen,         \* QueryChanges: seen
    documents,    \* QueryChanges: documents, then changes.Documents
    lastPage,     \* QueryChanges: tokens reported by the last page read
    docIdx,       \* process: index of the document being handled
    result,       \* process: what the invocation returned
    relCalls,     \* history: ReleaseChangesToken calls made by each invocation
    failedAt,     \* history: the page token whose request failed
    acqAt,        \* history: when each member of holders acquired
    holders,      \* history: who acquired each lease since its last create/release
    lastStored,   \* history: token stored by the last create/release per lease
    ret,          \* return value of the last store call made directly
    watchChannels,\* WatchChannels table: set of [folder_id, channel_id, resource_id]
    queue,        \* messages sent to the queue, in order
    request,      \* headers of the last request the relay handled
    response,     \* the relay's response to it
    stages,       \* DocumentProcessingStage table: set of stage records
    held,         \* the stage record each pipeline stage holds
    retired,      \* history: channel ids a registration has replaced
    lastRun,      \* when the registration schedule last fired
    webhookURL,   \* the webhook URL the registration lambda is configured with
    workflows,    \* state machine executions: document id -> execution
    records,      \* process: Records of the event after the one being handled
    poll          \* pollForResults of each OCR stage handler

vars == << now, lease, feed, ledger, executions, pc, startToken, pageToken,
           seen, documents, lastPage, docIdx, result, relCalls, failedAt,
           acqAt, holders, lastStored, ret, watchChannels, queue, request,
           response, stages, held, retired, lastRun, webhookURL, workflows,
           records, poll >>

registerVars == << retired, lastRun, webhookURL >>

relayVars == << watchChannels, queue, request, response, registerVars >>

stageVars == << stages, held, workflows, poll >>

procVars == << pc, startToken, pageToken, seen, documents, lastPage, docIdx,
               result, relCalls, failedAt, records >>

\* ------------------------------------------------------------ lease store

NoLease == [exists |-> FALSE, locked |-> FALSE, lock_expires |-> NoExpiry,
            token |-> EmptyToken]

\* Mutants of AcquireCondition: the lease counts as expired at the instant
\* lock_expires; the expiry clause is missing.
AcquireCondition_ExpiredAtDeadline(l, t) ==
    /\ l.exists
    /\ \/ l.locked = FALSE
       \/ (l.lock_expires # NoExpiry /\ l.lock_expires <= t)

AcquireCondition_NoExpiry(l, t) ==
    /\ l.exists
    /\ l.locked = FALSE

\* Mutant of AcquireCondition: an item that does not exist counts as
\* unlocked.
AcquireCondition_MissingIsUnlocked(l, t) ==
    \/ l.locked = FALSE
    \/ (l.lock_expires # NoExpiry /\ l.lock_expires < t)

\* ConditionExpression "locked = :false OR lock_expires < :now"; a comparison
\* with an attribute the item does not have is false.
AcquireCondition(l, t) ==
    /\ l.exists
    /\ \/ l.locked = FALSE
       \/ (l.lock_expires # NoExpiry /\ l.lock_expires < t)

\* Mutants of AcquireChangesToken: the lease is extended although the
\* condition failed; a successful acquire does not set lock_expires.
AcquireChangesToken_ExtendOnFailure(l, t) ==
    IF AcquireCondition(l, t)
    THEN [lease |-> [l EXCEPT !.locked = TRUE,
                              !.lock_expires = t + LeaseMillis],
          token |-> l.token, err |-> "nil"]
    ELSE [lease |-> [l EXCEPT !.lock_expires = t + LeaseMillis],
          token |-> EmptyToken, err |-> "lock is currently held"]

AcquireChangesToken_NoLeaseUntil(l, t) ==
    IF AcquireCondition(l, t)
    THEN [lease |-> [l EXCEPT !.locked = TRUE],
          token |-> l.token, err |-> "nil"]
    ELSE [lease |-> l, token |-> EmptyToken, err |-> "lock is currently held"]

\* UpdateItem changes nothing and the call reports the lock held when the
\* condition fails; otherwise it sets locked and lock_expires and returns the
\* item's changes_start_token.
AcquireChangesToken(l, t) ==
    IF AcquireCondition(l, t)
    THEN [lease |-> [l EXCEPT !.locked = TRUE,
                              !.lock_expires = t + LeaseMillis],
          token |-> l.token, err |-> "nil"]
    ELSE [lease |-> l, token |-> EmptyToken, err |-> "lock is currently held"]

\* The update expression always names :new_start_token, the value is bound
\* only for a non-empty token: with an empty token the request is rejected.
ReleaseChangesToken(l, newStartToken) ==
    IF newStartToken # EmptyToken
    THEN [lease |-> [l EXCEPT !.exists = TRUE, !.locked = FALSE,
                              !.token = newStartToken],
          err |-> "nil"]
    ELSE [lease |-> l, err |-> "validation"]

CreateChangesToken(l, token) ==
    [lease |-> [l EXCEPT !.exists = TRUE, !.locked = FALSE, !.token = token],
     err |-> "nil"]

\* ------------------------------------------------------------ change feed

Min(a, b) == IF a < b THEN a ELSE b

\* Fields("... changes(fileId, removed, file(id, name, parents, ...))"): the
\* response carries the fields the mask names; changeType and file.trashed are
\* not among them and arrive as their zero values.
FieldsMask(e) ==
    [fileId |-> e.fileId, removed |-> e.removed, parents |-> e.parents,
     changeType |-> "", trashed |-> FALSE]

\* Changes.List(pageToken): one page of the log from position pageToken, with
\* a nextPageToken while entries remain and a newStartPageToken at the end.
ChangesList(log, token) ==
    LET last == Min(token + PageSize - 1, Len(log))
        more == last < Len(log)
    IN  [changes |-> [k \in 1..(last - token + 1) |->
                         FieldsMask(log[token + k - 1])],
         nextPageToken |-> IF more THEN last + 1 ELSE EmptyToken,
         newStartPageToken |-> IF more THEN EmptyToken ELSE Len(log) + 1]

\* slices.Contains(change.File.Parents, folderID)
Contains(parents, folderID) == \E k \in 1..Len(parents) : parents[k] = folderID

\* buildDocument: a fresh ID, the file id and the file's first parent.
buildDocument(i, n, file) ==
    [ID |-> << i, n >>, GoogleID |-> file.fileId,
     GoogleFolderID |-> file.parents[1]]

\* Mutants of Skipped: no deduplication; no folder test.
Skipped_NoDedup(change, folderID, seenIds) ==
    \/ change.changeType = "drive" \/ change.removed \/ change.trashed
    \/ ~Contains(change.parents, folderID)

Skipped_NoFolderTest(change, folderID, seenIds) ==
    \/ change.changeType = "drive" \/ change.removed \/ change.trashed
    \/ change.fileId \in seenIds

\* The three continue statements of the loop over changes.Changes: drive
\* changes, removals and trashed files; files outside the folder; files seen
\* earlier in this call.
Skipped(change, folderID, seenIds) ==
    \/ change.changeType = "drive" \/ change.removed \/ change.trashed
    \/ ~Contains(change.parents, folderID)
    \/ change.fileId \in seenIds

\* Mutant of Emit: the document is put in front.
Emit_Prepend(docs, document) == << document >> \o docs

\* documents = append(documents, document)
Emit(docs, document) == Append(docs, document)

\* The body of the loop over changes.Changes of one page, in page order.
RECURSIVE ProcessChanges(_, _, _, _, _)
ProcessChanges(i, changes, folderID, seenIds, docs) ==
    IF changes = << >>
    THEN [seen |-> seenIds, documents |-> docs]
    ELSE LET change == Head(changes)
             rest == Tail(changes)
         IN  IF Skipped(change, folderID, seenIds)
             THEN ProcessChanges(i, rest, folderID, seenIds, docs)
             ELSE ProcessChanges(i, rest, folderID,
                                 seenIds \cup {change.fileId},
                                 Emit(docs,
                                      buildDocument(i, Len(docs) + 1, change)))

\* --------------------------------------------------------- document store

\* The global secondary indexes each table is created with.
TableIndexes(table) ==
    CASE table = "Documents" -> {"GoogleFileIDIndex"}
      [] table = "WatchChannels" -> {"ChannelIDIndex", "ExpiresAtIndex"}
      [] OTHER -> {}

\* The table GetDocumentByGoogleID sends its query to.
GoogleIDQueryTable == "WatchChannels"

\* Query of GoogleFileIDIndex: an error when the table has no such index,
\* ErrDocumentNotFound when no item matches, nil otherwise.
GetDocumentByGoogleID(docs, googleFileID) ==
    IF "GoogleFileIDIndex" \notin TableIndexes(GoogleIDQueryTable)
    THEN "validation"
    ELSE IF GoogleIDQueryTable # "Documents"
            \/ ~\E d \in docs : d.GoogleID = googleFileID
    THEN "document not found"
    ELSE "nil"

\* Mutant of InsertDocument: the item replaces the items of the same
\* external file.
InsertDocument_KeyedByGoogleID(docs, document) ==
    {d \in docs : d.GoogleID # document.GoogleID} \cup {document}

\* PutItem keyed by id: the item replaces any item with the same id.
InsertDocument(docs, document) ==
    {d \in docs : d.ID # document.ID} \cup {document}

\* ------------------------------------------------------------------- Init

\* The channel of the queue message an invocation handles.
ChannelOf(i) == "ch1"

\* BatchSize: jsii.Number(1): an event of the queue carries one record.
BatchSize == 1

\* The locals of every invocation before its first statement.
InitLocals ==
    /\ pc = [i \in Procs |-> "acquire"]
    /\ startToken = [i \in Procs |-> EmptyToken]
    /\ pageToken = [i \in Procs |-> EmptyToken]
    /\ seen = [i \in Procs |-> {}]
    /\ documents = [i \in Procs |-> << >>]
    /\ lastPage = [i \in Procs |-> EmptyToken]
    /\ docIdx = [i \in Procs |-> 0]
    /\ result = [i \in Procs |-> "running"]
    /\ relCalls = [i \in Procs |-> 0]
    /\ failedAt = [i \in Procs |-> EmptyToken]

InitProcs ==
    /\ InitLocals
    /\ records = [i \in Procs |-> BatchSize - 1]

\* No request handled yet, nothing registered, nothing queued.
NoRequest == [state |-> "", channelID |-> "", resourceID |-> ""]

WebhookURLs == {"u1", "u2"}

NoResponse == [Body |-> "", StatusCode |-> 0]

InitRelay ==
    /\ watchChannels = {}
    /\ queue = << >>
    /\ request = NoRequest
    /\ response = NoResponse
    /\ retired = {}
    /\ lastRun = NoTime
    /\ webhookURL = "u1"

\* The zero value of a stage record: the pipeline stage holds none.
NoStage == [ID |-> "", Stage |-> "", StageStatus |-> "", StartedAt |-> NoTime,
            CompletedAt |-> NoTime, OriginalFileName |-> "",
            StageFileName |-> "", S3Key |-> ""]

DocumentIDs == {"d1"}

\* An execution of the state machine that has not been started.
NoWorkflow == [status |-> "none", task |-> 0, at |-> "idle", attempts |-> 0,
               event |-> "", stage |-> NoStage, failed |-> 0]

\* No pipeline stage runs and no execution exists.
InitStages ==
    /\ stages = {}
    /\ held = << >>
    /\ workflows = << >>
    /\ poll = << >>

\* Registration has seeded every channel's lease with the feed's start token.
InitIngest ==
    /\ now = 0
    /\ feed = << >>
    /\ lease = [c \in Channels |-> CreateChangesToken(NoLease, 1).lease]
    /\ lastStored = [c \in Channels |-> 1]
    /\ holders = [c \in Channels |-> {}]
    /\ acqAt = [i \in Procs |-> NoExpiry]
    /\ ledger = {}
    /\ executions = {}
    /\ ret = [op |-> "none", by |-> 0, ch |-> "ch1", arg |-> EmptyToken,
              token |-> EmptyToken, err |-> "nil"]
    /\ InitProcs
    /\ InitRelay

Init == InitIngest /\ InitStages

\* ------------------------------------------------------------ environment

TickTo(limit) ==
    /\ now < limit
    /\ now' = now + TickMillis
    /\ UNCHANGED << lease, feed, ledger, executions, procVars, acqAt,
                    holders, lastStored, ret,
                    relayVars, stageVars >>

Tick == TickTo(MaxNow)

\* A file is added, changed or removed in the drive.
AddChange ==
    /\ Len(feed) < MaxChanges
    /\ \E e \in Entries : feed' = Append(feed, e)
    /\ UNCHANGED << now, lease, ledger, executions, procVars, acqAt,
                    holders, lastStored, ret,
                    relayVars, stageVars >>

\* ------------------------------------------------- process (SQS handler)

\* The locals of process and of QueryChanges.
locals == << startToken, pageToken, seen, documents, lastPage, docIdx >>

\* process returns value: its locals are gone.
Return(i, value) ==
    /\ pc' = [pc EXCEPT ![i] = "done"]
    /\ result' = [result EXCEPT ![i] = value]
    /\ startToken' = [startToken EXCEPT ![i] = EmptyToken]
    /\ pageToken' = [pageToken EXCEPT ![i] = EmptyToken]
    /\ seen' = [seen EXCEPT ![i] = {}]
    /\ documents' = [documents EXCEPT ![i] = << >>]
    /\ lastPage' = [lastPage EXCEPT ![i] = EmptyToken]
    /\ docIdx' = [docIdx EXCEPT ![i] = 0]

\* Mutant of Acquire: a release is called when the lock is held.
Acquire_ReleaseOnLockHeld(i) ==
    /\ pc[i] = "acquire"
    /\ LET c == ChannelOf(i)
           r == AcquireChangesToken(lease[c], now)
       IN  IF r.err = "nil"
           THEN /\ lease' = [lease EXCEPT ![c] = r.lease]
                /\ pc' = [pc EXCEPT ![i] = "query"]
                /\ startToken' = [startToken EXCEPT ![i] = r.token]
                /\ pageToken' = [pageToken EXCEPT ![i] = r.token]
                /\ acqAt' = [acqAt EXCEPT ![i] = now]
                /\ holders' = [holders EXCEPT ![c] = @ \cup {i}]
                /\ UNCHANGED << result, seen, documents, lastPage, docIdx,
                                relCalls >>
           ELSE /\ Return(i, r.err)
                /\ lease' = [lease EXCEPT ![c].locked = FALSE]
                /\ relCalls' = [relCalls EXCEPT ![i] = @ + 1]
                /\ UNCHANGED << acqAt, holders >>
    /\ UNCHANGED << now, feed, ledger, executions, failedAt, lastStored, ret,
                    records, relayVars, stageVars >>

\* startToken, err := cfg.store.AcquireChangesToken(ctx, eventData.ChannelID)
Acquire(i) ==
    /\ pc[i] = "acquire"
    /\ LET c == ChannelOf(i)
           r == AcquireChangesToken(lease[c], now)
       IN  /\ lease' = [lease EXCEPT ![c] = r.lease]
           /\ IF r.err = "nil"
              THEN /\ pc' = [pc EXCEPT ![i] = "query"]
                   /\ startToken' = [startToken EXCEPT ![i] = r.token]
                   /\ pageToken' = [pageToken EXCEPT ![i] = r.token]
                   /\ acqAt' = [acqAt EXCEPT ![i] = now]
                   /\ holders' = [holders EXCEPT ![c] = @ \cup {i}]
                   /\ UNCHANGED << result, seen, documents, lastPage, docIdx >>
              ELSE /\ Return(i, r.err)
                   /\ UNCHANGED << acqAt, holders >>
    /\ UNCHANGED << now, feed, ledger, executions, relCalls, failedAt,
                    lastStored, ret, records,
                    relayVars, stageVars >>

\* Mutant of FeedErrorReturn: the release is deferred, so it runs on the
\* error path with the page token reached so far.
FeedErrorReturn_DeferredRelease(i) ==
    /\ Return(i, "feed error")
    /\ LET c == ChannelOf(i)
           r == ReleaseChangesToken(lease[c], pageToken[i])
       IN  /\ lease' = [lease EXCEPT ![c] = r.lease]
           /\ relCalls' = [relCalls EXCEPT ![i] = @ + 1]
           /\ holders' = [holders EXCEPT ![c] = {}]
           /\ acqAt' = [j \in Procs |-> IF j \in holders[c] THEN NoExpiry
                                                         ELSE acqAt[j]]
           /\ lastStored' = [lastStored EXCEPT ![c] = pageToken[i]]
    /\ failedAt' = [failedAt EXCEPT ![i] = pageToken[i]]

\* Mutant of FeedErrorReturn: the lease is unlocked on the error path, its
\* cursor kept.
FeedErrorReturn_Unlock(i) ==
    /\ Return(i, "feed error")
    /\ lease' = [lease EXCEPT ![ChannelOf(i)].locked = FALSE]
    /\ failedAt' = [failedAt EXCEPT ![i] = pageToken[i]]
    /\ UNCHANGED << relCalls, holders, acqAt, lastStored >>

\* if err != nil { return err } after QueryChanges: the handler returns the
\* error; the lease is not touched.
FeedErrorReturn(i) ==
    /\ Return(i, "feed error")
    /\ failedAt' = [failedAt EXCEPT ![i] = pageToken[i]]
    /\ UNCHANGED << lease, relCalls, holders, acqAt, lastStored >>

\* Mutant of QueryChangesPage: the next request is made with the token of
\* the request before it.
QueryChangesPage_SameToken(i, ok) ==
    /\ pc[i] = "query"
    /\ IF pageToken[i] = EmptyToken
       THEN /\ pc' = [pc EXCEPT ![i] = "release"]
            /\ UNCHANGED << locals, result, lease, relCalls, failedAt,
                            holders, acqAt, lastStored >>
       ELSE IF ~ok
       THEN FeedErrorReturn(i)
       ELSE LET page == ChangesList(feed, pageToken[i])
                r == ProcessChanges(i, page.changes, WatchedFolder, seen[i],
                                    documents[i])
            IN  /\ seen' = [seen EXCEPT ![i] = r.seen]
                /\ documents' = [documents EXCEPT ![i] = r.documents]
                /\ lastPage' = [lastPage EXCEPT ![i] = page.newStartPageToken]
                /\ IF page.nextPageToken = EmptyToken
                   THEN /\ pageToken' = [pageToken EXCEPT
                                           ![i] = page.newStartPageToken]
                        /\ pc' = [pc EXCEPT ![i] = "release"]
                   ELSE UNCHANGED << pageToken, pc >>
                /\ UNCHANGED << startToken, docIdx, result, lease, relCalls,
                                failedAt, holders, acqAt, lastStored >>
    /\ UNCHANGED << now, feed, ledger, executions, ret, records,
                    relayVars, stageVars >>

\* One turn of the loop of QueryChanges: the loop test, one page request and
\* the handling of the page.  ok is whether the page request succeeds.
QueryChangesPage(i, ok) ==
    /\ pc[i] = "query"
    /\ IF pageToken[i] = EmptyToken
       THEN /\ pc' = [pc EXCEPT ![i] = "release"]
            /\ UNCHANGED << locals, result, lease, relCalls, failedAt,
                            holders, acqAt, lastStored >>
       ELSE IF ~ok
       THEN FeedErrorReturn(i)
       ELSE LET page == ChangesList(feed, pageToken[i])
                r == ProcessChanges(i, page.changes, WatchedFolder, seen[i],
                                    documents[i])
            IN  /\ seen' = [seen EXCEPT ![i] = r.seen]
                /\ documents' = [documents EXCEPT ![i] = r.documents]
                /\ lastPage' = [lastPage EXCEPT ![i] = page.newStartPageToken]
                /\ IF page.nextPageToken = EmptyToken
                   THEN /\ pageToken' = [pageToken EXCEPT
                                           ![i] = page.newStartPageToken]
                        /\ pc' = [pc EXCEPT ![i] = "release"]
                   ELSE /\ pageToken' = [pageToken EXCEPT
                                           ![i] = page.nextPageToken]
                        /\ UNCHANGED pc
                /\ UNCHANGED << startToken, docIdx, result, lease, relCalls,
                                failedAt, holders, acqAt, lastStored >>
    /\ UNCHANGED << now, feed, ledger, executions, ret, records,
                    relayVars, stageVars >>

\* The end of one turn of the loop over sqsEvent.Records: the next record
\* is handled with fresh locals, and process returns nil after the last.
NextRecord(i) ==
    IF records[i] > 0
    THEN /\ records' = [records EXCEPT ![i] = @ - 1]
         /\ pc' = [pc EXCEPT ![i] = "acquire"]
         /\ startToken' = [startToken EXCEPT ![i] = EmptyToken]
         /\ pageToken' = [pageToken EXCEPT ![i] = EmptyToken]
         /\ seen' = [seen EXCEPT ![i] = {}]
         /\ documents' = [documents EXCEPT ![i] = << >>]
         /\ lastPage' = [lastPage EXCEPT ![i] = EmptyToken]
         /\ docIdx' = [docIdx EXCEPT ![i] = 0]
         /\ UNCHANGED result
    ELSE /\ Return(i, "nil")
         /\ UNCHANGED records

\* The handling of changes.Documents from index k on: process returns nil
\* when the list is empty, the turn of the loop over the records ends once
\* the list is exhausted, otherwise the next document is looked up.
NextDocument(i, k) ==
    IF Len(documents[i]) = 0
    THEN /\ Return(i, "nil")
         /\ UNCHANGED records
    ELSE IF k > Len(documents[i])
    THEN NextRecord(i)
    ELSE /\ pc' = [pc EXCEPT ![i] = "lookup"]
         /\ docIdx' = [docIdx EXCEPT ![i] = k]
         /\ UNCHANGED << result, startToken, pageToken, seen, documents,
                         lastPage, records >>

\* Mutant of NextStartToken: the token the lease was acquired with.
NextStartToken_StartToken(i) == startToken[i]

\* changes.NextStartToken: pageToken as the loop of QueryChanges left it.
NextStartToken(i) == pageToken[i]

\* err = cfg.store.ReleaseChangesToken(ctx, ChannelID, changes.NextStartToken);
\* an error is logged and the handler goes on.
ReleaseCall(i) ==
    LET c == ChannelOf(i)
        r == ReleaseChangesToken(lease[c], NextStartToken(i))
    IN  /\ lease' = [lease EXCEPT ![c] = r.lease]
        /\ relCalls' = [relCalls EXCEPT ![i] = @ + 1]
        /\ IF r.err = "nil"
           THEN /\ holders' = [holders EXCEPT ![c] = {}]
                /\ acqAt' = [j \in Procs |-> IF j \in holders[c] THEN NoExpiry
                                                              ELSE acqAt[j]]
                /\ lastStored' = [lastStored EXCEPT ![c] = NextStartToken(i)]
           ELSE UNCHANGED << holders, acqAt, lastStored >>

\* Mutant of Release: the test for an empty changes.Documents comes first.
Release_AfterEmptyTest(i) ==
    /\ pc[i] = "release"
    /\ IF Len(documents[i]) = 0
       THEN UNCHANGED << lease, relCalls, holders, acqAt, lastStored >>
       ELSE ReleaseCall(i)
    /\ NextDocument(i, 1)
    /\ UNCHANGED << now, feed, ledger, executions, failedAt, ret,
                    relayVars, stageVars >>

\* The release, then the test for an empty changes.Documents and the start of
\* the loop over the documents.
Release(i) ==
    /\ pc[i] = "release"
    /\ ReleaseCall(i)
    /\ NextDocument(i, 1)
    /\ UNCHANGED << now, feed, ledger, executions, failedAt, ret,
                    relayVars, stageVars >>

\* _, err = cfg.docStore.GetDocumentByGoogleID(ctx, document.GoogleID):
\* the document is skipped when err == nil and inserted otherwise.
Lookup(i) ==
    /\ pc[i] = "lookup"
    /\ IF GetDocumentByGoogleID(ledger, documents[i][docIdx[i]].GoogleID) = "nil"
       THEN NextDocument(i, docIdx[i] + 1)
       ELSE /\ pc' = [pc EXCEPT ![i] = "insert"]
            /\ UNCHANGED << locals, result, records >>
    /\ UNCHANGED << now, lease, feed, ledger, executions, relCalls, failedAt,
                    acqAt, holders, lastStored, ret,
                    relayVars, stageVars >>

\* err = cfg.docStore.InsertDocument(ctx, document)
Insert(i, ok) ==
    /\ pc[i] = "insert"
    /\ IF ok
       THEN /\ ledger' = InsertDocument(ledger, documents[i][docIdx[i]])
            /\ pc' = [pc EXCEPT ![i] = "start"]
            /\ UNCHANGED << locals, result >>
       ELSE /\ Return(i, "insert error")
            /\ UNCHANGED ledger
    /\ UNCHANGED << now, lease, feed, executions, relCalls, failedAt, acqAt,
                    holders, lastStored, ret, records,
                    relayVars, stageVars >>

\* util.BuildStepInput(NotificationID, document.ID, DOCUMENT_STAGE_NEW)
BuildStepInput(notificationID, id, stage) ==
    [notificationID |-> notificationID, id |-> id, stage |-> stage]

\* cfg.sfnClient.StartExecution with the step input of the document.
StartExecution(i, ok) ==
    /\ pc[i] = "start"
    /\ IF ok
       THEN /\ executions' = executions \cup
                   {BuildStepInput(i, documents[i][docIdx[i]].ID, "new")}
            /\ NextDocument(i, docIdx[i] + 1)
       ELSE /\ Return(i, "start error")
            /\ UNCHANGED << executions, records >>
    /\ UNCHANGED << now, lease, feed, ledger, relCalls, failedAt, acqAt,
                    holders, lastStored, ret,
                    relayVars, stageVars >>

process(i) ==
    \/ Acquire(i)
    \/ \E ok \in BOOLEAN : QueryChangesPage(i, ok)
    \/ Release(i)
    \/ Lookup(i)
    \/ \E ok \in BOOLEAN : Insert(i, ok)
    \/ \E ok \in BOOLEAN : StartExecution(i, ok)

Next ==
    \/ Tick
    \/ AddChange
    \/ \E i \in Procs : process(i)

Spec == Init /\ [][Next]_vars

\* ---------------------------------------- the lease store called directly
\* The WatchChannelStore interface driven by arbitrary callers: every order of
\* CreateChangesToken, AcquireChangesToken and ReleaseChangesToken, with every
\* token, on a table that starts without an item.

InitStore ==
    /\ now = 0
    /\ feed = << >>
    /\ lease = [c \in Channels |-> NoLease]
    /\ lastStored = [c \in Channels |-> EmptyToken]
    /\ holders = [c \in Channels |-> {}]
    /\ acqAt = [i \in Procs |-> NoExpiry]
    /\ ledger = {}
    /\ executions = {}
    /\ ret = [op |-> "none", by |-> 0, ch |-> "ch1", arg |-> EmptyToken,
              token |-> EmptyToken, err |-> "nil"]
    /\ InitProcs
    /\ InitRelay
    /\ InitStages

StoreCreate(c, token) ==
    /\ LET r == CreateChangesToken(lease[c], token)
       IN  /\ lease' = [lease EXCEPT ![c] = r.lease]
           /\ ret' = [op |-> "create", by |-> 0, ch |-> c, arg |-> token,
                      token |-> EmptyToken, err |-> r.err]
           /\ lastStored' = [lastStored EXCEPT ![c] = token]
           /\ holders' = [holders EXCEPT ![c] = {}]
           /\ acqAt' = [j \in Procs |-> IF j \in holders[c] THEN NoExpiry
                                                         ELSE acqAt[j]]
    /\ UNCHANGED << now, feed, ledger, executions, procVars,
                    relayVars, stageVars >>

StoreAcquire(i, c) ==
    /\ LET r == AcquireChangesToken(lease[c], now)
       IN  /\ lease' = [lease EXCEPT ![c] = r.lease]
           /\ ret' = [op |-> "acquire", by |-> i, ch |-> c, arg |-> EmptyToken,
                      token |-> r.token, err |-> r.err]
           /\ IF r.err = "nil"
              THEN /\ acqAt' = [acqAt EXCEPT ![i] = now]
                   /\ holders' = [holders EXCEPT ![c] = @ \cup {i}]
              ELSE UNCHANGED << acqAt, holders >>
    /\ UNCHANGED << now, feed, ledger, executions, procVars, lastStored,
                    relayVars, stageVars >>

StoreRelease(i, c, token) ==
    /\ LET r == ReleaseChangesToken(lease[c], token)
       IN  /\ lease' = [lease EXCEPT ![c] = r.lease]
           /\ ret' = [op |-> "release", by |-> i, ch |-> c, arg |-> token,
                      token |-> EmptyToken, err |-> r.err]
           /\ IF r.err = "nil"
              THEN /\ lastStored' = [lastStored EXCEPT ![c] = token]
                   /\ holders' = [holders EXCEPT ![c] = {}]
                   /\ acqAt' = [j \in Procs |-> IF j \in holders[c]
                                                 THEN NoExpiry ELSE acqAt[j]]
              ELSE UNCHANGED << lastStored, holders, acqAt >>
    /\ UNCHANGED << now, feed, ledger, executions, procVars,
                    relayVars, stageVars >>

NextStore ==
    \/ Tick
    \/ \E c \in Channels, token \in StartTokens : StoreCreate(c, token)
    \/ \E i \in Procs, c \in Channels : StoreAcquire(i, c)
    \/ \E i \in Procs, c \in Channels, token \in Tokens :
           StoreRelease(i, c, token)

SpecStore == InitStore /\ [][NextStore]_vars

\* ----------------------------------------- abandoned leases: no release
\* Holders that never release (crashed, or returned on a feed error): the
\* only calls are acquires, and the clock runs.  An acquire is made only
\* while the expiry of the lease it takes is still within the clock's range.

AcquireAndCrash(i, c) ==
    /\ now + LeaseMillis < MaxExpiryNow
    /\ StoreAcquire(i, c)

TickExpiry == TickTo(MaxExpiryNow)

InitExpiry ==
    /\ now = 0
    /\ feed = << >>
    /\ \E token \in StartTokens :
          /\ lease = [c \in Channels |-> CreateChangesToken(NoLease, token).lease]
          /\ lastStored = [c \in Channels |-> token]
    /\ holders = [c \in Channels |-> {}]
    /\ acqAt = [i \in Procs |-> NoExpiry]
    /\ ledger = {}
    /\ executions = {}
    /\ ret = [op |-> "none", by |-> 0, ch |-> "ch1", arg |-> EmptyToken,
              token |-> EmptyToken, err |-> "nil"]
    /\ InitProcs
    /\ InitRelay
    /\ InitStages

NextExpiry ==
    \/ TickExpiry
    \/ \E i \in Procs, c \in Channels : AcquireAndCrash(i, c)

SpecExpiry == InitExpiry /\ [][NextExpiry]_vars /\ WF_vars(TickExpiry)

\* ------------------------------------------- one call over a varied feed
\* One invocation of process over a change feed with every kind of entry:
\* two files of the watched folder, a removal, a trashed file, a file of
\* another folder and a file with the watched folder as its second parent.

QueryEntries ==
    { [fileId |-> "g1", removed |-> FALSE, trashed |-> FALSE,
       parents |-> <<"F1">>],
      [fileId |-> "g2", removed |-> FALSE, trashed |-> FALSE,
       parents |-> <<"F1">>],
      [fileId |-> "g1", removed |-> TRUE, trashed |-> FALSE,
       parents |-> <<"F1">>],
      [fileId |-> "g1", removed |-> FALSE, trashed |-> TRUE,
       parents |-> <<"F1">>],
      [fileId |-> "g2", removed |-> FALSE, trashed |-> FALSE,
       parents |-> <<"F2">>],
      [fileId |-> "g2", removed |-> FALSE, trashed |-> FALSE,
       parents |-> <<"F2", "F1">>] }

FileIds == {"g1", "g2"}

QueryAddChange ==
    /\ Len(feed) < MaxChanges
    /\ \E e \in QueryEntries : feed' = Append(feed, e)
    /\ UNCHANGED << now, lease, ledger, executions, procVars, acqAt,
                    holders, lastStored, ret,
                    relayVars, stageVars >>

NextQuery ==
    \/ QueryAddChange
    \/ process(1)

SpecQuery == Init /\ [][NextQuery]_vars

\* -------------------------------------------------- notification relay
\* The webhook handler behind the API gateway: it validates a push signal
\* against the WatchChannels table and sends a message to the queue.

ResourceStates == {"sync", "add", "remove"}
ChannelIDs == {"ch1", "ch2", "ch3"}
ResourceIDs == {"r1", "r2"}
Folders == {"F1", "F2"}

HourMillis == 3600000
ChannelExpiryMillis == 48 * HourMillis

NoChannel == [folder_id |-> "", channel_id |-> "", resource_id |-> "",
              expires_at |-> 0, webhook_url |-> ""]

\* Mutant of UpdateWatchChannel: the item is added and the folder's earlier
\* record stays.
UpdateWatchChannel_Append(table, wc) == table \cup {wc}

\* UpdateItem keyed by folder_id: the record of the folder is replaced.
UpdateWatchChannel(table, wc) ==
    {w \in table : w.folder_id # wc.folder_id} \cup {wc}

\* Query of ChannelIDIndex: a query error, "watch channel not found" when no
\* item has the channel id, the first item otherwise.
GetWatchChannelByID(table, channelID, ok) ==
    LET items == {w \in table : w.channel_id = channelID}
    IN  IF ~ok THEN [wc |-> NoChannel, err |-> "query error"]
        ELSE IF items = {}
        THEN [wc |-> NoChannel, err |-> "watch channel not found"]
        ELSE [wc |-> CHOOSE w \in items : TRUE, err |-> "nil"]

\* Mutant of queryWatchChannelForRequest: the resource id is not compared.
queryWatchChannelForRequest_NoResourceCheck(table, req, ok) ==
    LET r == GetWatchChannelByID(table, req.channelID, ok)
    IN  IF req.state # "add"
        THEN [wc |-> NoChannel, err |-> "invalid file notification"]
        ELSE IF r.err # "nil"
        THEN [wc |-> NoChannel, err |-> "invalid file notification"]
        ELSE [wc |-> r.wc, err |-> "nil"]

\* The three tests of queryWatchChannelForRequest, each failing with
\* "invalid file notification": the resource state is not add, no watch
\* channel is found for the channel id, the resource id differs.
queryWatchChannelForRequest(table, req, ok) ==
    LET r == GetWatchChannelByID(table, req.channelID, ok)
    IN  IF req.state # "add"
        THEN [wc |-> NoChannel, err |-> "invalid file notification"]
        ELSE IF r.err # "nil"
        THEN [wc |-> NoChannel, err |-> "invalid file notification"]
        ELSE IF req.resourceID # r.wc.resource_id
        THEN [wc |-> NoChannel, err |-> "invalid file notification"]
        ELSE [wc |-> r.wc, err |-> "nil"]

\* Mutant of SendMessage: the message is sent twice.
SendMessage_Twice(q, message) == Append(Append(q, message), message)

\* cfg.sqsClient.SendMessage: the message is added to the queue.
SendMessage(q, message) == Append(q, message)

BuildGatewayResponse(message, statusCode) ==
    [Body |-> message, StatusCode |-> statusCode]

\* process of the webhook handler: validate, build the message with a fresh
\* notification id, send it.  storeOk and sendOk are whether the registry
\* query and SendMessage succeed.
processFileNotification(req, storeOk, sendOk) ==
    /\ Len(queue) < MaxSignals
    /\ request' = req
    /\ LET q == queryWatchChannelForRequest(watchChannels, req, storeOk)
           message == [NotificationID |-> Len(queue) + 1,
                       ChannelID |-> q.wc.channel_id,
                       FolderID |-> q.wc.folder_id]
       IN  IF q.err # "nil"
           THEN /\ response' = BuildGatewayResponse(q.err, 500)
                /\ UNCHANGED queue
           ELSE IF ~sendOk
           THEN /\ response' = BuildGatewayResponse("send error", 500)
                /\ UNCHANGED queue
           ELSE /\ queue' = SendMessage(queue, message)
                /\ response' = BuildGatewayResponse("Processing new file", 200)
    /\ UNCHANGED << now, lease, feed, ledger, executions, procVars, acqAt,
                    holders, lastStored, ret, watchChannels, registerVars,
                    stageVars >>

\* The channel ids of the folder's records: what a registration replaces.
ChannelsOfFolder(table, folder) ==
    {w.channel_id : w \in {x \in table : x.folder_id = folder}}

\* CreateWatchChannel: the channel id is a new uuid, one no channel has or
\* had; the watch expires 48 hours from now and posts to url.
CreateWatchChannel(folder, channel, resource, url, t) ==
    [folder_id |-> folder, channel_id |-> channel, resource_id |-> resource,
     expires_at |-> t + ChannelExpiryMillis, webhook_url |-> url]

FreshChannelID(channel) ==
    /\ channel \notin retired
    /\ \A w \in watchChannels : w.channel_id # channel

\* registerWatchChannel: the folder's current watch is stopped, a watch is
\* created on the folder under a new channel id, and the folder's record is
\* written with it and with the resource id the provider returned.
registerWatchChannel(folder, channel, resource) ==
    /\ FreshChannelID(channel)
    /\ watchChannels' = UpdateWatchChannel(watchChannels,
                            CreateWatchChannel(folder, channel, resource,
                                               webhookURL, now))
    /\ retired' = retired \cup ChannelsOfFolder(watchChannels, folder)
    /\ UNCHANGED << now, lease, feed, ledger, executions, procVars, acqAt,
                    holders, lastStored, ret, queue, request, response,
                    lastRun, webhookURL, stageVars >>

NextRelay ==
    \/ \E folder \in Folders, channel \in ChannelIDs, resource \in ResourceIDs :
           registerWatchChannel(folder, channel, resource)
    \/ \E state \in ResourceStates, channel \in ChannelIDs,
          resource \in ResourceIDs, storeOk \in BOOLEAN, sendOk \in BOOLEAN :
           processFileNotification([state |-> state, channelID |-> channel,
                                    resourceID |-> resource], storeOk, sendOk)

SpecRelay == Init /\ [][NextRelay]_vars

\* The relay and the ingestion side by side: the watched folder is
\* registered under the channel whose lease is seeded, signals arrive and
\* one ingestion invocation runs while the feed grows.
NextFrame ==
    \/ \E resource \in ResourceIDs :
           registerWatchChannel(WatchedFolder, "ch1", resource)
    \/ \E state \in ResourceStates, channel \in ChannelIDs,
          resource \in ResourceIDs, storeOk \in BOOLEAN, sendOk \in BOOLEAN :
           processFileNotification([state |-> state, channelID |-> channel,
                                    resourceID |-> resource], storeOk, sendOk)
    \/ AddChange
    \/ process(1)

SpecFrame == Init /\ [][NextFrame]_vars

\* ------------------------------------------------- channel registration
\* The registration lambda of the schedule: every ScheduleHours hours it
\* re-registers the watch channels that expire within RegisterMarginHours
\* hours or were created for another webhook URL, and seeds the lease of
\* each new channel.  The registry holds the configured folder only.

ScheduleHours == 20
RegisterMarginHours == 4

\* channelRegisterTime and the test of getChannelsToRegister.
getChannelsToRegister(table, url, t) ==
    LET channelRegisterTime == t + RegisterMarginHours * HourMillis
    IN  {wc \in table : \/ wc.expires_at <= channelRegisterTime
                        \/ wc.webhook_url # url}

\* The record process builds when the table is empty.
initializeDefaultWatchChannels ==
    {[NoChannel EXCEPT !.folder_id = WatchedFolder]}

\* GetChangesStartToken: the position after the last entry of the feed.
GetChangesStartToken == Len(feed) + 1

\* process of the registration lambda, fired by the schedule.  channel and
\* resource are the uuid and the resource id of the watch it creates;
\* createOk, updateOk and lockOk are whether Files.Watch, UpdateWatchChannel
\* and CreateChangesToken succeed: the loop goes on to the next channel at
\* the first call that fails.
webhookRegisterProcess(channel, resource, createOk, updateOk, lockOk) ==
    /\ lastRun = NoTime \/ now = lastRun + ScheduleHours * HourMillis
    /\ FreshChannelID(channel)
    /\ lastRun' = now
    /\ LET registerWatchChannels ==
               IF watchChannels = {}
               THEN initializeDefaultWatchChannels
               ELSE getChannelsToRegister(watchChannels, webhookURL, now)
       IN  IF registerWatchChannels = {} \/ ~createOk \/ ~updateOk
           THEN UNCHANGED << watchChannels, retired, lease, lastStored >>
           ELSE LET old == CHOOSE wc \in registerWatchChannels : TRUE
                    wc == CreateWatchChannel(old.folder_id, channel, resource,
                                             webhookURL, now)
                    r == CreateChangesToken(lease[channel],
                                            GetChangesStartToken)
                IN  /\ watchChannels' = UpdateWatchChannel(watchChannels, wc)
                    /\ retired' = retired \cup
                                      ChannelsOfFolder(watchChannels,
                                                       old.folder_id)
                    /\ IF lockOk
                       THEN /\ lease' = [lease EXCEPT ![channel] = r.lease]
                            /\ lastStored' = [lastStored EXCEPT
                                                 ![channel] = r.lease.token]
                       ELSE UNCHANGED << lease, lastStored >>
    /\ UNCHANGED << now, feed, ledger, executions, procVars, acqAt, holders,
                    ret, queue, request, response, webhookURL, stageVars >>

\* The lambda is deployed with another webhook URL.
ChangeWebhookURL(url) ==
    /\ url # webhookURL
    /\ webhookURL' = url
    /\ UNCHANGED << now, lease, feed, ledger, executions, procVars, acqAt,
                    holders, lastStored, ret, watchChannels, queue, request,
                    response, retired, lastRun, stageVars >>

\* An hour passes; the schedule fires on time.
TickHour ==
    /\ lastRun # NoTime
    /\ now < lastRun + ScheduleHours * HourMillis
    /\ now < MaxHours * HourMillis
    /\ now' = now + HourMillis
    /\ UNCHANGED << lease, feed, ledger, executions, procVars, acqAt,
                    holders, lastStored, ret, relayVars, stageVars >>

\* Nothing registered: no channel has a lease.
InitRenew ==
    /\ now = 0
    /\ feed = << >>
    /\ lease = [c \in ChannelIDs |-> NoLease]
    /\ lastStored = [c \in ChannelIDs |-> EmptyToken]
    /\ holders = [c \in ChannelIDs |-> {}]
    /\ acqAt = [i \in Procs |-> NoExpiry]
    /\ ledger = {}
    /\ executions = {}
    /\ ret = [op |-> "none", by |-> 0, ch |-> "ch1", arg |-> EmptyToken,
              token |-> EmptyToken, err |-> "nil"]
    /\ InitProcs
    /\ InitRelay
    /\ InitStages

NextRenew ==
    \/ TickHour
    \/ AddChange
    \/ \E url \in WebhookURLs : ChangeWebhookURL(url)
    \/ \E channel \in ChannelIDs, resource \in ResourceIDs,
          createOk \in BOOLEAN, updateOk \in BOOLEAN, lockOk \in BOOLEAN :
           webhookRegisterProcess(channel, resource, createOk, updateOk,
                                  lockOk)

SpecRenew == InitRenew /\ [][NextRenew]_vars

\* ------------------------------------------------ document stage records
\* Pipeline stages start a stage record, put the name and the storage key of
\* their artifact on the record they hold, and complete it.

StageNames == {"downloaded", "mathpix"}
StageFileNames == {"a.md"}
S3Keys == {"k1"}

\* The item of the table with the key of record stage, left out.
OtherStages(table, stage) ==
    {r \in table : ~(r.ID = stage.ID /\ r.Stage = stage.Stage)}

\* insertDocumentStage: StartedAt is set, the item is put under (id, stage).
insertDocumentStage(table, stage, t) ==
    LET st == [stage EXCEPT !.StartedAt = t]
    IN  [table |-> OtherStages(table, st) \cup {st}, stage |-> st]

StartDocumentStage(table, id, stage, originalFileName, t) ==
    LET docStage == [NoStage EXCEPT !.ID = id, !.Stage = stage,
                                    !.StageStatus = "in-progress",
                                    !.StartedAt = t,
                                    !.OriginalFileName = originalFileName]
    IN  insertDocumentStage(table, docStage, t)

\* Mutant of CompleteDocumentStage: every record in progress is completed.
CompleteDocumentStage_AllInProgress(table, stage, t) ==
    LET st == [stage EXCEPT !.CompletedAt = t, !.StageStatus = "complete"]
    IN  [table |-> {IF r.StageStatus = "in-progress"
                    THEN [r EXCEPT !.CompletedAt = t,
                                   !.StageStatus = "complete"]
                    ELSE r : r \in OtherStages(table, st)} \cup {st},
         stage |-> st]

\* Mutant of CompleteDocumentStage: only the status and the completion time
\* are written to the item.
CompleteDocumentStage_StatusOnly(table, stage, t) ==
    LET st == [stage EXCEPT !.CompletedAt = t, !.StageStatus = "complete"]
        same == {r \in table : r.ID = st.ID /\ r.Stage = st.Stage}
        old == IF same = {} THEN NoStage ELSE CHOOSE r \in same : TRUE
    IN  [table |-> OtherStages(table, st) \cup
                      {[old EXCEPT !.CompletedAt = t,
                                   !.StageStatus = "complete"]},
         stage |-> st]

\* CompleteDocumentStage: CompletedAt and the status are set on the caller's
\* record, and UpdateItem sets every attribute of the record but the key on
\* the item under (id, stage).
CompleteDocumentStage(table, stage, t) ==
    LET st == [stage EXCEPT !.CompletedAt = t, !.StageStatus = "complete"]
    IN  [table |-> OtherStages(table, st) \cup {st}, stage |-> st]

\* A pipeline stage starts its stage record; ok is whether PutItem succeeds.
StageStart(p, id, stage, ok) ==
    /\ held[p] = NoStage
    /\ LET r == StartDocumentStage(stages, id, stage, "a.pdf", now)
       IN  IF ok
           THEN /\ stages' = r.table
                /\ held' = [held EXCEPT ![p] = r.stage]
           ELSE UNCHANGED << stages, held >>
    /\ ret' = [op |-> "startStage", by |-> p, ch |-> "ch1",
               arg |-> EmptyToken, token |-> EmptyToken,
               err |-> IF ok THEN "nil" ELSE "put error"]
    /\ UNCHANGED << now, lease, feed, ledger, executions, procVars, acqAt,
                    holders, lastStored, relayVars, workflows, poll >>

\* The stage names its artifact on the record it holds.
StageArtifact(p, fileName, key) ==
    /\ held[p].StageStatus = "in-progress"
    /\ held[p].S3Key = ""
    /\ held' = [held EXCEPT ![p].StageFileName = fileName, ![p].S3Key = key]
    /\ UNCHANGED << now, lease, feed, ledger, executions, procVars, acqAt,
                    holders, lastStored, ret, relayVars, stages, workflows,
                    poll >>

\* The stage completes the record it holds; ok is whether UpdateItem succeeds.
StageComplete(p, ok) ==
    /\ held[p].StageStatus = "in-progress"
    /\ LET r == CompleteDocumentStage(stages, held[p], now)
       IN  /\ held' = [held EXCEPT ![p] = r.stage]
           /\ stages' = IF ok THEN r.table ELSE stages
    /\ ret' = [op |-> "completeStage", by |-> p, ch |-> "ch1",
               arg |-> EmptyToken, token |-> EmptyToken,
               err |-> IF ok THEN "nil" ELSE "update error"]
    /\ UNCHANGED << now, lease, feed, ledger, executions, procVars, acqAt,
                    holders, lastStored, relayVars, workflows, poll >>

NextStages ==
    \/ Tick
    \/ \E p \in Procs, id \in DocumentIDs, stage \in StageNames,
          ok \in BOOLEAN : StageStart(p, id, stage, ok)
    \/ \E p \in Procs, fileName \in StageFileNames, key \in S3Keys :
           StageArtifact(p, fileName, key)
    \/ \E p \in Procs, ok \in BOOLEAN : StageComplete(p, ok)

\* Every stage handler is ready to start a stage record.
InitStageHandlers ==
    /\ InitIngest
    /\ stages = {}
    /\ held = [p \in Procs |-> NoStage]
    /\ workflows = << >>
    /\ poll = << >>

SpecStages == InitStageHandlers /\ [][NextStages]_vars

\* ------------------------------------------------------ document pipeline
\* The state machine chains four Lambda tasks; each task's handler starts
\* the stage record of its stage, does the stage's work and completes the
\* record, and returns an error at the first call that fails.  A task that
\* returns an error fails the execution.  A task whose invocation ends in a
\* Lambda service exception is invoked again, whatever the handler did.

PipelineDocs == {"d1", "d2"}
Pipeline == << "downloaded", "mathpix", "chatgpt", "uploaded" >>
Tasks == 1..Len(Pipeline)

\* GetItem under (id, stage): the item, or the zero record and no error
\* when there is none.
GetDocumentStage(table, id, stage) ==
    LET items == {r \in table : r.ID = id /\ r.Stage = stage}
    IN  IF items = {} THEN NoStage ELSE CHOOSE r \in items : TRUE

\* The task's handler returned nil: the next task of the chain is entered
\* with the handler's output, or the execution succeeds.
TaskSucceeded(w) ==
    IF w.task = Len(Pipeline)
    THEN [w EXCEPT !.status = "succeeded", !.at = "idle", !.stage = NoStage]
    ELSE [w EXCEPT !.task = w.task + 1, !.at = "invoke", !.attempts = 0,
                   !.event = Pipeline[w.task], !.stage = NoStage]

\* Mutant of TaskFailed: the chain goes on after a task's error.
TaskFailed_Continue(w) == TaskSucceeded(w)

\* The task's handler returned an error: the execution fails where it is.
TaskFailed(w) == [w EXCEPT !.status = "failed"]

\* The invocation ended in a service exception: the task is invoked again
\* with the same input.
TaskRetried(w) ==
    [w EXCEPT !.at = "invoke", !.attempts = w.attempts + 1, !.stage = NoStage]

\* What the state machine does with the end of an invocation: err is the
\* handler's error, delivered whether the state machine got the result.
\* The field failed keeps the task whose handler, past StartDocumentStage,
\* returned an error the state machine got.
TaskOutcome(w, err, delivered) ==
    IF ~delivered THEN TaskRetried(w)
    ELSE IF err = "nil" THEN TaskSucceeded(w)
    ELSE [TaskFailed(w) EXCEPT
             !.failed = IF w.stage # NoStage THEN w.task ELSE 0]

\* Mutant of CompleteError: the error of CompleteDocumentStage is logged
\* and the handler returns nil.
CompleteError_Logged(ok) == "nil"

\* The error the handler returns after CompleteDocumentStage.
CompleteError(ok) == IF ok THEN "nil" ELSE "update error"

\* StartExecution: the execution of document d enters the first task with
\* the step input of stage new.
StartWorkflow(d) ==
    /\ workflows[d].status = "none"
    /\ workflows' = [workflows EXCEPT ![d] =
                        [NoWorkflow EXCEPT !.status = "running", !.task = 1,
                                           !.at = "invoke", !.event = "new"]]
    /\ UNCHANGED << now, lease, feed, ledger, executions, procVars, acqAt,
                    holders, lastStored, ret, relayVars, stages, held,
                    poll >>

\* The handler up to StartDocumentStage: the download stage names the
\* document, the other stages read the record of event.Stage for its
\* original file name; ok is whether these calls and PutItem succeed.
TaskStart(d, ok, delivered) ==
    LET w == workflows[d]
        originalFileName ==
            IF w.task = 1 THEN "a.pdf"
            ELSE GetDocumentStage(stages, d, w.event).OriginalFileName
        r == StartDocumentStage(stages, d, Pipeline[w.task], originalFileName,
                                now)
    IN  /\ w.status = "running"
        /\ w.at = "invoke"
        /\ IF ok
           THEN /\ delivered
                /\ stages' = r.table
                /\ workflows' = [workflows EXCEPT ![d] =
                                    [w EXCEPT !.at = "work",
                                              !.stage = r.stage]]
           ELSE /\ delivered \/ w.attempts < MaxRetries
                /\ UNCHANGED stages
                /\ workflows' = [workflows EXCEPT ![d] =
                                    TaskOutcome(w, "start error", delivered)]
        /\ UNCHANGED << now, lease, feed, ledger, executions, procVars,
                        acqAt, holders, lastStored, ret, relayVars, held, poll >>

\* The work of the stage, which ends with the name and the storage key of
\* its artifact on the handler's record; ok is whether every call succeeds.
TaskWork(d, ok, delivered) ==
    LET w == workflows[d]
    IN  /\ w.status = "running"
        /\ w.at = "work"
        /\ IF ok
           THEN /\ delivered
                /\ workflows' = [workflows EXCEPT ![d] =
                                    [w EXCEPT !.at = "complete",
                                              !.stage.StageFileName = "a.md",
                                              !.stage.S3Key = "k1"]]
           ELSE /\ delivered \/ w.attempts < MaxRetries
                /\ workflows' = [workflows EXCEPT ![d] =
                                    TaskOutcome(w, "work error", delivered)]
        /\ UNCHANGED << now, lease, feed, ledger, executions, procVars,
                        acqAt, holders, lastStored, ret, relayVars, stages,
                        held, poll >>

\* CompleteDocumentStage on the handler's record and the handler's return;
\* ok is whether UpdateItem succeeds.
TaskComplete(d, ok, delivered) ==
    LET w == workflows[d]
        r == CompleteDocumentStage(stages, w.stage, now)
    IN  /\ w.status = "running"
        /\ w.at = "complete"
        /\ delivered \/ w.attempts < MaxRetries
        /\ stages' = IF ok THEN r.table ELSE stages
        /\ workflows' = [workflows EXCEPT ![d] =
                            TaskOutcome(w, CompleteError(ok), delivered)]
        /\ UNCHANGED << now, lease, feed, ledger, executions, procVars,
                        acqAt, holders, lastStored, ret, relayVars, held, poll >>

InitPipeline ==
    /\ InitIngest
    /\ stages = {}
    /\ held = << >>
    /\ workflows = [d \in PipelineDocs |-> NoWorkflow]
    /\ poll = << >>

NextPipeline ==
    \/ \E d \in PipelineDocs : StartWorkflow(d)
    \/ \E d \in PipelineDocs, ok \in BOOLEAN, delivered \in BOOLEAN :
           TaskStart(d, ok, delivered)
    \/ \E d \in PipelineDocs, ok \in BOOLEAN, delivered \in BOOLEAN :
           TaskWork(d, ok, delivered)
    \/ \E d \in PipelineDocs, ok \in BOOLEAN, delivered \in BOOLEAN :
           TaskComplete(d, ok, delivered)

SpecPipeline == InitPipeline /\ [][NextPipeline]_vars

\* ================================================================ claims

Abs(x) == IF x < 0 THEN -x ELSE x

\* An invocation is polling from its successful acquire to its release.
Polling(i) == pc[i] \in {"query", "release"}

\* The invocation got past its acquire.
Acquired(i) == pc[i] # "acquire" /\ result[i] # "lock is currently held"

\* C1: mutual exclusion of acquire.  Two invocations that both acquired a
\* channel's lease with no release since are more than the lease duration
\* apart: of two acquires issued together on an unlocked lease, neither
\* having released, at most one succeeds.
C1_MutualExclusionOfAcquire ==
    \A c \in Channels : \A i, j \in holders[c] :
        i # j => Abs(acqAt[i] - acqAt[j]) > 30000

C1_Witness ==
    \E i, j \in Procs :
        /\ holders[ChannelOf(i)] = {i}
        /\ acqAt[i] = now
        /\ result[j] = "lock is currently held"

\* C2: at most one poller per channel.  In every state at most one invocation
\* is between its successful acquire and its release.
C2_AtMostOnePoller ==
    \A c \in Channels :
        Cardinality({i \in Procs : ChannelOf(i) = c /\ Polling(i)}) <= 1

\* C3: exactly-once ingestion.  For every external file id at most one
\* document with that id is in the ledger.
C3_ExactlyOnceIngestion ==
    \A d1, d2 \in ledger : d1.GoogleID = d2.GoogleID => d1 = d2

\* C4: lease self-recovery.  An acquire made when the lease is locked and
\* the clock is past lock_expires succeeds, and a locked lease always comes
\* to a state in which it can be acquired, with no release ever called.
C4_LeaseSelfRecovery ==
    /\ [][\A c \in Channels :
            (/\ ret'.op = "acquire"
             /\ ret'.ch = c
             /\ ret' # ret
             /\ lease[c].locked
             /\ lease[c].lock_expires < now) => ret'.err = "nil"]_vars
    /\ \A c \in Channels :
          [](lease[c].locked =>
                <>(AcquireChangesToken(lease[c], now).err = "nil"))

C4_Witness ==
    \E c \in Channels :
        /\ Cardinality(holders[c]) >= 2
        /\ ret.op = "acquire"
        /\ ret.err = "nil"

\* C5: cursor durability on failure.  The return on a failed page request
\* leaves the lease as it is, the invocation has made no release call, and
\* while no other release has happened the lease's stored cursor is the one
\* the invocation acquired with, not the page position it had reached.
C5_CursorDurabilityOnFailure ==
    [][\A i \in Procs :
          (pc[i] = "query" /\ result'[i] = "feed error")
          => LET c == ChannelOf(i)
             IN  /\ lease' = lease
                 /\ relCalls'[i] = 0
                 /\ i \in holders[c] => /\ lease'[c].token = startToken[i]
                                        /\ lease'[c].locked]_vars

C5_Witness ==
    \E i \in Procs :
        /\ result[i] = "feed error"
        /\ relCalls[i] = 0
        /\ i \in holders[ChannelOf(i)]
        /\ failedAt[i] > lease[ChannelOf(i)].token
        /\ lease[ChannelOf(i)].locked

\* C6: a failed acquire changes nothing.  An acquire on a lease that is
\* locked with lock_expires not yet passed returns the lock-held error and
\* leaves the lease item as it was.
C6_FailedAcquireChangesNothing ==
    [][\A i \in Procs :
          (/\ pc[i] = "acquire"
           /\ pc'[i] # "acquire"
           /\ lease[ChannelOf(i)].locked
           /\ lease[ChannelOf(i)].lock_expires >= now)
          => /\ result'[i] = "lock is currently held"
             /\ lease' = lease]_vars

C6_Witness ==
    \E i \in Procs :
        /\ result[i] = "lock is currently held"
        /\ lease[ChannelOf(i)].locked
        /\ lease[ChannelOf(i)].lock_expires = now

\* C7: a successful acquire sets locked and lock_expires = now + 30 s, leaves
\* the stored cursor as it is and returns the cursor stored by the last
\* release, or by the seeding create when nothing was released yet.
C7_SuccessfulAcquire ==
    [][\A i \in Procs :
          (pc[i] = "acquire" /\ pc'[i] = "query")
          => LET c == ChannelOf(i)
             IN  /\ lease'[c].locked
                 /\ lease'[c].lock_expires = now + 30000
                 /\ lease'[c].token = lease[c].token
                 /\ startToken'[i] = lastStored[c]]_vars

C7_Witness ==
    \E i \in Procs :
        /\ pc[i] = "query"
        /\ startToken[i] # 1
        /\ lease[ChannelOf(i)].locked
        /\ lease[ChannelOf(i)].lock_expires = now + 30000

\* C8: after ReleaseChangesToken(channelID, newCursor) the lease is unlocked
\* and its stored cursor is newCursor, for every newCursor, and once it has
\* returned without error the lease can be acquired at once.
C8_ReleaseUnlocksAndStores ==
    ret.op = "release" =>
        /\ lease[ret.ch].locked = FALSE
        /\ lease[ret.ch].token = ret.arg
        /\ ret.err = "nil" => AcquireChangesToken(lease[ret.ch], now).err = "nil"

Returned(i) == pc[i] \in {"release", "lookup", "insert", "start"}

\* The feed positions the call of invocation i was given.
ReadRange(i) == startToken[i]..(pageToken[i] - 1)

\* The documents of the call that carry external file id g.
DocsOf(i, g) == {n \in 1..Len(documents[i]) : documents[i][n].GoogleID = g}

\* A feed entry that is not a removal and names the watched folder.
InFolder(e) == ~e.removed /\ Contains(e.parents, WatchedFolder)

C13_RemovedNeverEmitted ==
    \A i \in Procs :
        Returned(i) =>
            /\ \A g \in FileIds :
                  (\A k \in ReadRange(i) :
                      feed[k].fileId = g
                      => (feed[k].removed \/ feed[k].trashed))
                  => DocsOf(i, g) = {}
            /\ (\A k \in ReadRange(i) : feed[k].removed \/ feed[k].trashed)
               => /\ documents[i] = << >>
                  /\ pageToken[i] >= startToken[i]
                  /\ pageToken[i] # EmptyToken

\* C14: folder filter.  Every document of a call comes from an entry of the
\* call that has the watched folder among its parents, and a file id whose
\* entries are all outside the watched folder has no document.
C14_FolderFilter ==
    \A i \in Procs :
        Returned(i) =>
            /\ \A n \in 1..Len(documents[i]) :
                  \E k \in ReadRange(i) :
                      /\ feed[k].fileId = documents[i][n].GoogleID
                      /\ Contains(feed[k].parents, WatchedFolder)
            /\ \A g \in FileIds :
                  (\A k \in ReadRange(i) :
                      feed[k].fileId = g
                      => ~Contains(feed[k].parents, WatchedFolder))
                  => DocsOf(i, g) = {}

C14_Witness ==
    \E i \in Procs :
        /\ Returned(i)
        /\ Len(documents[i]) = 1
        /\ \E k \in ReadRange(i) :
              /\ ~feed[k].removed
              /\ ~Contains(feed[k].parents, WatchedFolder)
              /\ DocsOf(i, feed[k].fileId) = {}

\* The first entry of the call that is not skipped and names file id g.
FirstOccurrence(i, g) ==
    CHOOSE k \in ReadRange(i) :
        /\ feed[k].fileId = g /\ InFolder(feed[k])
        /\ \A m \in ReadRange(i) :
              (feed[m].fileId = g /\ InFolder(feed[m])) => k <= m

FileOf(e) == (CHOOSE d \in ledger : d.ID = e.id).GoogleID

\* C18: one workflow execution per newly discovered document.  No two
\* executions are for the same external file, and every execution carries an
\* invocation's notification id, the id of a ledger document and stage new.
C18_OneExecutionPerDocument ==
    /\ \A e \in executions :
          /\ e.notificationID \in Procs
          /\ e.stage = "new"
          /\ \E d \in ledger : d.ID = e.id
    /\ \A e1, e2 \in executions : FileOf(e1) = FileOf(e2) => e1 = e2

\* C20: lock-held is a clean exit.  An invocation whose acquire reported the
\* lock held is done: it has called no release, read no page, and no ledger
\* document and no workflow execution is its own.
C20_LockHeldCleanExit ==
    \A i \in Procs :
        result[i] = "lock is currently held"
        => /\ pc[i] = "done"
           /\ relCalls[i] = 0
           /\ failedAt[i] = EmptyToken /\ lastPage[i] = EmptyToken
           /\ i \notin holders[ChannelOf(i)]
           /\ \A d \in ledger : d.ID[1] # i
           /\ \A e \in executions : e.notificationID # i
           /\ \A j \in holders[ChannelOf(i)] :
                 Polling(j) => lease[ChannelOf(i)].locked

C20_Witness ==
    \E i, j \in Procs :
        /\ result[i] = "lock is currently held"
        /\ relCalls[i] = 0
        /\ Polling(j)
        /\ j \in holders[ChannelOf(i)]
        /\ lease[ChannelOf(i)].locked
        /\ lease[ChannelOf(i)].lock_expires >= now

\* C16: the relay enqueues a message only for a signal whose resource state
\* is add, whose channel id has a record in the registry and whose resource
\* id is that record's; the message is new, for that channel and its folder.
C16_RelayEnqueuesOnlyValidAdd ==
    [][queue' # queue
       => /\ request'.state = "add"
          /\ response'.StatusCode = 200
          /\ \E w \in watchChannels :
                /\ w.channel_id = request'.channelID
                /\ w.resource_id = request'.resourceID
                /\ \E message \in [NotificationID : 1..(Len(queue) + 1),
                                    ChannelID : {w.channel_id},
                                    FolderID : {w.folder_id}] :
                      /\ queue' = Append(queue, message)
                      /\ \A k \in 1..Len(queue) :
                            queue[k].NotificationID # message.NotificationID
      ]_vars

C16_Witness ==
    /\ Len(queue) = 1
    /\ request.state = "add"
    /\ response.StatusCode = 500
    /\ \E w \in watchChannels :
          /\ w.channel_id = request.channelID
          /\ w.resource_id # request.resourceID
          /\ queue[1].ChannelID = w.channel_id

\* C17: a signal whose resource state is not add is answered with a success
\* response.
C17_NonAddAccepted ==
    (request # NoRequest /\ request.state # "add")
    => response.StatusCode = 200

\* C19: stage lifecycle.  A start stores the record in progress with the
\* current time as StartedAt; the complete that follows on the held record
\* leaves one stored record for (id, stage): complete, with the StartedAt of
\* the start, CompletedAt the current time and not before StartedAt, and the
\* stage file name and storage key the caller put on the record.
C19_StageLifecycle ==
    [][\A p \in Procs :
          /\ (held[p] = NoStage /\ held'[p] # NoStage)
             => /\ held'[p].StartedAt = now
                /\ held'[p].StageStatus = "in-progress"
                /\ held'[p] \in stages'
          /\ held[p] # NoStage => held'[p].StartedAt = held[p].StartedAt
          /\ (/\ held[p].StageStatus = "in-progress"
              /\ held'[p].StageStatus = "complete"
              /\ ret'.err = "nil")
             => \E r \in stages' :
                   /\ \A o \in stages' :
                         (o.ID = r.ID /\ o.Stage = r.Stage) => o = r
                   /\ r.ID = held[p].ID /\ r.Stage = held[p].Stage
                   /\ r.StageStatus = "complete"
                   /\ r.StartedAt = held[p].StartedAt
                   /\ r.CompletedAt = now
                   /\ r.CompletedAt >= r.StartedAt
                   /\ r.OriginalFileName = held[p].OriginalFileName
                   /\ r.StageFileName = held[p].StageFileName
                   /\ r.S3Key = held[p].S3Key]_vars

C19_Witness ==
    \E p \in Procs :
        /\ ret.op = "completeStage" /\ ret.by = p /\ ret.err = "nil"
        /\ held[p] \in stages
        /\ held[p].StageStatus = "complete"
        /\ held[p].CompletedAt > held[p].StartedAt
        /\ held[p].S3Key # ""

\* A signal with resource state add for the channel and resource id.
AddSignal(channel, resource) ==
    [state |-> "add", channelID |-> channel, resourceID |-> resource]

\* C21: channel registry.  After any sequence of registrations the registry
\* holds one record, hence one channel id, per folder; a signal that carries
\* a channel id a registration has replaced is rejected whatever resource id
\* it carries, and so is a signal that carries a registered channel id with
\* a resource id other than the one of its record.
C21_RegistryOneChannelPerFolder ==
    /\ \A w1 \in watchChannels, w2 \in watchChannels :
           w1.folder_id = w2.folder_id => w1 = w2
    /\ \A channel \in retired, resource \in ResourceIDs, ok \in BOOLEAN :
           queryWatchChannelForRequest(watchChannels,
               AddSignal(channel, resource), ok).err # "nil"
    /\ \A w \in watchChannels, resource \in ResourceIDs, ok \in BOOLEAN :
           resource # w.resource_id
           => queryWatchChannelForRequest(watchChannels,
                  AddSignal(w.channel_id, resource), ok).err # "nil"

\* A folder's channel has been rotated and a signal with the old channel id
\* has been answered with an error; the other folder is registered too.
C21_Witness ==
    /\ retired # {}
    /\ Cardinality(watchChannels) = 2
    /\ request.state = "add"
    /\ request.channelID \in retired
    /\ response.StatusCode = 500

\* C22: renewal before expiry.  With the lambda fired every 20 hours,
\* channels expiring 48 hours after their creation and re-registration of
\* the channels that expire within 4 hours, no record of the registry has
\* an expiry time that has passed.
C22_RenewedBeforeExpiry ==
    \A wc \in watchChannels : now <= wc.expires_at

\* The file of feed entry k is recorded in the ledger and a workflow
\* execution has been started for its document.
Processed(k) ==
    \E d \in ledger :
        /\ d.GoogleID = feed[k].fileId
        /\ \E e \in executions : e.id = d.ID

\* C23: no discovered file is lost.  Once every invocation has returned,
\* each entry the stored cursor of the lease has passed that names a file
\* in the watched folder has its file in the ledger with a workflow started.
C23_NoDiscoveredFileLost ==
    (\A i \in Procs : pc[i] = "done")
    => \A c \in Channels : \A k \in 1..Len(feed) :
           (k < lease[c].token /\ InFolder(feed[k])) => Processed(k)

C25_LookupErrorNotAbsent ==
    \A i \in Procs :
        pc[i] = "insert"
        => GetDocumentByGoogleID(ledger, documents[i][docIdx[i]].GoogleID)
              = "document not found"

\* The stored record of stage number t of document d, NoStage if none.
StageRecord(d, t) == GetDocumentStage(stages, d, Pipeline[t])

\* The step starts the stage record of the current task of document d.
StartsStage(d) ==
    /\ workflows[d].at = "invoke"
    /\ workflows'[d].at = "work"

\* C26: a stage record is written once as in-progress and mutated once to
\* complete.  A stored record that is complete stays as it is, and a step
\* that starts the stage record of a document finds no record stored for
\* that document and stage.
C26_StageWrittenOnce ==
    [][/\ \A r \in stages : r.StageStatus = "complete" => r \in stages'
       /\ \A d \in PipelineDocs :
             StartsStage(d)
             => StageRecord(d, workflows[d].task) = NoStage]_vars

\* C27: pipeline stage order.  A document has a record of a stage after
\* the first only when its record of the preceding stage is complete, and
\* a step that starts such a stage finds the preceding record complete.
C27_PipelineStageOrder ==
    \A d \in PipelineDocs : \A t \in Tasks :
        /\ (t > 1 /\ StageRecord(d, t) # NoStage)
           => StageRecord(d, t - 1).StageStatus = "complete"
        /\ (/\ workflows[d].status = "running"
            /\ workflows[d].task = t
            /\ t > 1)
           => /\ workflows[d].event = Pipeline[t - 1]
              /\ StageRecord(d, t - 1).StageStatus = "complete"

\* An execution has succeeded: the four records of its document are
\* complete.
C27_Witness ==
    \E d \in PipelineDocs :
        /\ workflows[d].status = "succeeded"
        /\ \A t \in Tasks : StageRecord(d, t).StageStatus = "complete"

SameKey(table, r) == {o \in table : o.ID = r.ID /\ o.Stage = r.Stage}

\* C29: only the owner completes a stage.  A step that stores a record is
\* taken by the execution of the record's document for the stage of its
\* current task; when the record is complete, that execution holds the
\* record it started for the stage and is at its CompleteDocumentStage;
\* and the step leaves the records of every other key as they are.
C29_OwnerCompletes ==
    [][\A r \in stages' \ stages :
          /\ r.ID \in PipelineDocs
          /\ LET w == workflows[r.ID]
             IN  /\ w.status = "running"
                 /\ r.Stage = Pipeline[w.task]
                 /\ r.StageStatus = "complete"
                    => /\ w.at = "complete"
                       /\ w.stage.ID = r.ID
                       /\ w.stage.Stage = r.Stage
                       /\ w.stage.StageStatus = "in-progress"
                       /\ r.CompletedAt = now
          /\ \A o \in stages \ SameKey(stages, r) : o \in stages'
          /\ \A o \in stages' \ SameKey(stages', r) : o \in stages]_vars

\* The second stage of one document has been completed while the record of
\* the other document's first stage is in progress.
C29_Witness ==
    \E d, e \in PipelineDocs :
        /\ d # e
        /\ workflows[d].task = 3
        /\ StageRecord(d, 2).StageStatus = "complete"
        /\ StageRecord(e, 1).StageStatus = "in-progress"
        /\ workflows[e].at = "complete"

\* C30: a release with an empty new start token still unlocks.  After
\* ReleaseChangesToken(channelID, "") the call has returned no error, the
\* lease is unlocked and its stored token is the one stored before.
C30_EmptyReleaseUnlocks ==
    (ret.op = "release" /\ ret.arg = EmptyToken)
    => /\ ret.err = "nil"
       /\ lease[ret.ch].locked = FALSE
       /\ lease[ret.ch].token = lastStored[ret.ch]

\* C31: re-registration keeps the resume point.  The lease of the channel
\* a folder is registered with stores the token stored in the lease of each
\* channel the registration replaced.
C31_ReregistrationKeepsCursor ==
    \A wc \in watchChannels : \A old \in retired :
        (lease[wc.channel_id].exists /\ lease[old].exists)
        => lease[wc.channel_id].token = lease[old].token

\* C32: a lease is seeded before its channel is polled.  An acquire on a
\* channel that has no lease record fails and leaves the channel without a
\* record; an acquire that succeeds found a record with a stored token and
\* returns that token.
C32_SeededBeforePolled ==
    [][\A c \in Channels :
          (ret'.op = "acquire" /\ ret'.ch = c /\ ret' # ret)
          => /\ ~lease[c].exists
                => /\ ret'.err = "lock is currently held"
                   /\ lease'[c] = NoLease
             /\ ret'.err = "nil"
                => /\ lease[c].exists
                   /\ lease[c].token # EmptyToken
                   /\ ret'.token = lease[c].token]_vars

\* An acquire has failed on a channel that has no lease record.
C32_Witness ==
    /\ ret.op = "acquire"
    /\ ret.err = "lock is currently held"
    /\ lease[ret.ch] = NoLease

\* C33: document records are immutable.  Every step leaves each record of
\* the ledger in the ledger as it is.
C33_DocumentsImmutable ==
    [][\A d \in ledger : d \in ledger']_vars

\* Two invocations have each recorded a document.
C33_Witness ==
    \E d1, d2 \in ledger : d1.ID[1] # d2.ID[1]

\* The step handles a signal in the relay.
RelayStep == request' # request \/ response' # response \/ queue' # queue

\* The step is taken by an ingestion invocation.
IngestionStep == procVars' # procVars

\* C34: frame of relay and ingestion.  A step of the relay leaves the
\* leases, the ledger, the registry, the executions and every ingestion
\* invocation as they are and adds at most one message to the queue; a step
\* of an ingestion invocation leaves the registry and the queue as they are.
C34_Frame ==
    [][/\ RelayStep
          => /\ lease' = lease
             /\ ledger' = ledger
             /\ executions' = executions
             /\ watchChannels' = watchChannels
             /\ procVars' = procVars
             /\ \/ queue' = queue
                \/ /\ Len(queue') = Len(queue) + 1
                   /\ SubSeq(queue', 1, Len(queue)) = queue
       /\ IngestionStep
          => /\ watchChannels' = watchChannels
             /\ queue' = queue]_vars

\* A signal has been enqueued for the registered channel and an ingestion
\* invocation has recorded a document.
C34_Witness ==
    /\ watchChannels # {}
    /\ queue # << >>
    /\ ledger # {}
    /\ lease["ch1"].token > 1


\* ----------------------------------------------- an event of several records
\* process handed an event with up to MaxBatch records, as its loop over
\* sqsEvent.Records allows: the records name the same channel.

MaxBatch == 2

InitBatch ==
    /\ now = 0
    /\ feed = << >>
    /\ lease = [c \in Channels |-> CreateChangesToken(NoLease, 1).lease]
    /\ lastStored = [c \in Channels |-> 1]
    /\ holders = [c \in Channels |-> {}]
    /\ acqAt = [i \in Procs |-> NoExpiry]
    /\ ledger = {}
    /\ executions = {}
    /\ ret = [op |-> "none", by |-> 0, ch |-> "ch1", arg |-> EmptyToken,
              token |-> EmptyToken, err |-> "nil"]
    /\ InitLocals
    /\ \E n \in 1..MaxBatch :
           records = [i \in Procs |-> IF i = 1 THEN n - 1 ELSE 0]
    /\ InitRelay
    /\ InitStages

NextBatch ==
    \/ AddChange
    \/ process(1)

SpecBatch == InitBatch /\ [][NextBatch]_vars

MathpixStart(p, id, stage, getOk, ok) ==
    /\ held[p] = NoStage
    /\ LET prevStage == GetDocumentStage(stages, id, stage)
           r == StartDocumentStage(stages, id, "mathpix",
                                   prevStage.OriginalFileName, now)
       IN  IF getOk /\ ok
           THEN /\ stages' = r.table
                /\ held' = [held EXCEPT ![p] = r.stage]
                /\ ret' = [op |-> "mathpix", by |-> p, ch |-> "ch1",
                           arg |-> EmptyToken, token |-> EmptyToken,
                           err |-> "nil"]
           ELSE /\ UNCHANGED << stages, held >>
                /\ ret' = [op |-> "mathpix", by |-> p, ch |-> "ch1",
                           arg |-> EmptyToken, token |-> EmptyToken,
                           err |-> IF getOk THEN "put error"
                                            ELSE "get error"]
    /\ UNCHANGED << now, lease, feed, ledger, executions, procVars, acqAt,
                    holders, lastStored, relayVars, workflows, poll >>

NextLookup ==
    \/ \E p \in Procs, id \in DocumentIDs, ok \in BOOLEAN :
           StageStart(p, id, "downloaded", ok)
    \/ \E p \in Procs, fileName \in StageFileNames, key \in S3Keys :
           StageArtifact(p, fileName, key)
    \/ \E p \in Procs, ok \in BOOLEAN : StageComplete(p, ok)
    \/ \E p \in Procs, id \in DocumentIDs, stage \in StageNames,
          getOk \in BOOLEAN, ok \in BOOLEAN :
           MathpixStart(p, id, stage, getOk, ok)

SpecLookup == InitStageHandlers /\ [][NextLookup]_vars

PollStatuses == {"split", "completed", "error"}

\* No conversion has been sent.
NoPoll == [at |-> "idle", Status |-> "", err |-> "nil"]

\* The handler holds an OCR stage record without an artifact.
Converting(p) ==
    /\ held[p].Stage = "mathpix"
    /\ held[p].StageStatus = "in-progress"
    /\ held[p].S3Key = ""

\* pdfID, err := cfg.sendDocumentToMathpix(ctx, prevStage), then the entry of
\* pollForResults; ok is whether the upload succeeds.
PollStart(p, ok) ==
    /\ Converting(p)
    /\ poll[p].at = "idle"
    /\ poll' = [poll EXCEPT ![p] =
                   IF ok THEN [NoPoll EXCEPT !.at = "request"]
                   ELSE [NoPoll EXCEPT !.at = "failed", !.err = "upload error"]]
    /\ UNCHANGED << now, lease, feed, ledger, executions, procVars, acqAt,
                    holders, lastStored, ret, relayVars, stages, held,
                    workflows >>

\* One turn of the loop of pollForResults up to the switch; ok is whether
\* the request succeeds, status the status of its response.
PollRequest(p, ok, status) ==
    /\ poll[p].at = "request"
    /\ poll' = [poll EXCEPT ![p] =
                   IF ~ok
                   THEN [@ EXCEPT !.at = "returned", !.err = "request error"]
                   ELSE IF status = "completed"
                   THEN [at |-> "returned", Status |-> status, err |-> "nil"]
                   ELSE IF status = "error"
                   THEN [at |-> "returned", Status |-> status,
                         err |-> "mathpix PDF processing failed"]
                   ELSE [at |-> "sleep", Status |-> status, err |-> "nil"]]
    /\ UNCHANGED << now, lease, feed, ledger, executions, procVars, acqAt,
                    holders, lastStored, ret, relayVars, stages, held,
                    workflows >>

\* time.Sleep(MathpixPollInterval * time.Second), then the next turn.
PollSleep(p) ==
    /\ poll[p].at = "sleep"
    /\ poll' = [poll EXCEPT ![p].at = "request"]
    /\ UNCHANGED << now, lease, feed, ledger, executions, procVars, acqAt,
                    holders, lastStored, ret, relayVars, stages, held,
                    workflows >>

\* Timeout: awscdk.Duration_Minutes(5) of the function: the invocation is
\* ended where it is; pollForResults has not returned.
PollTimeout(p) ==
    /\ poll[p].at \in {"request", "sleep"}
    /\ poll' = [poll EXCEPT ![p].at = "timed out"]
    /\ UNCHANGED << now, lease, feed, ledger, executions, procVars, acqAt,
                    holders, lastStored, ret, relayVars, stages, held,
                    workflows >>

\* The handler goes past pollForResults when it returned nil.
Polled(p) ==
    held[p].Stage = "mathpix" => (poll[p].at = "returned" /\ poll[p].err = "nil")

InitPoll ==
    /\ InitIngest
    /\ stages = {}
    /\ held = [p \in Procs |-> NoStage]
    /\ workflows = << >>
    /\ poll = [p \in Procs |-> NoPoll]

NextPoll ==
    \/ \E p \in Procs, id \in DocumentIDs, ok \in BOOLEAN :
           StageStart(p, id, "downloaded", ok)
    \/ \E p \in Procs, id \in DocumentIDs, stage \in StageNames,
          getOk \in BOOLEAN, ok \in BOOLEAN :
           MathpixStart(p, id, stage, getOk, ok)
    \/ \E p \in Procs, ok \in BOOLEAN : PollStart(p, ok)
    \/ \E p \in Procs, ok \in BOOLEAN, status \in PollStatuses :
           PollRequest(p, ok, status)
    \/ \E p \in Procs : PollSleep(p)
    \/ \E p \in Procs : PollTimeout(p)
    \/ \E p \in Procs, fileName \in StageFileNames, key \in S3Keys :
           Polled(p) /\ StageArtifact(p, fileName, key)
    \/ \E p \in Procs, ok \in BOOLEAN : Polled(p) /\ StageComplete(p, ok)

\* The handler runs: a request that is due is made, a sleep ends, and the
\* timeout of an invocation that still polls fires.
PollFairness ==
    \A p \in Procs :
        /\ WF_vars(\E ok \in BOOLEAN, status \in PollStatuses :
                       PollRequest(p, ok, status))
        /\ WF_vars(PollSleep(p))
        /\ WF_vars(PollTimeout(p))

SpecPoll == InitPoll /\ [][NextPoll]_vars /\ PollFairness

\* C38: the OCR stage's status polling terminates: a call of pollForResults
\* returns, with nil once the remote status is completed and with an error
\* once it is error or a request fails, also when the remote status stays
\* at another value.
C38_PollingTerminates ==
    \A p \in Procs : (poll[p].at = "request") ~> (poll[p].at = "returned")


\* ------------------------------------------------- paging under fairness
\* One invocation over the varied feed, its handler running to its return.
SpecQueryLive == Init /\ [][NextQuery]_vars /\ WF_vars(process(1))

\* A turn of the loop of QueryChanges has made a page request.
PageRequested(i) ==
    /\ pc[i] = "query"
    /\ pageToken[i] # EmptyToken
    /\ << pc[i], pageToken[i], seen[i], documents[i], lastPage[i] >>' #
           << pc[i], pageToken[i], seen[i], documents[i], lastPage[i] >>

\* C37: paging terminates.  QueryChanges makes its page requests one after
\* the other: a request that fails ends the call with the error; a page
\* without a continuation token ends the loop with the feed's new start
\* token; a page with one is followed by a request with that token, which
\* lies past the page just read, so no page is requested twice and none is
\* left out.  Over a feed of finitely many pages the loop is left.
C37_PagingTerminates ==
    /\ [][\A i \in Procs : PageRequested(i) =>
            LET page == ChangesList(feed, pageToken[i])
            IN  \/ /\ pc'[i] = "done"
                   /\ result'[i] = "feed error"
                \/ /\ page.nextPageToken = EmptyToken
                   /\ pc'[i] = "release"
                   /\ pageToken'[i] = page.newStartPageToken
                   /\ pageToken'[i] = Len(feed) + 1
                \/ /\ page.nextPageToken # EmptyToken
                   /\ pc'[i] = "query"
                   /\ pageToken'[i] = page.nextPageToken
                   /\ pageToken'[i] = pageToken[i] + PageSize]_vars
    /\ \A i \in Procs : (pc[i] = "query") ~> (pc[i] # "query")

\* The loop of QueryChanges was left after more than one page.
C37_Witness ==
    /\ pc[1] = "release"
    /\ pageToken[1] > startToken[1] + PageSize
    /\ pageToken[1] = Len(feed) + 1

=============================================================================
